---- MODULE Spec2Model ----
(***************************************************************************)
(* Model of src/bin/topgrade-gui.rs: the pseudoterminal session of the     *)
(* Topgrade GUI.  A reader thread forwards the child's output through an   *)
(* mpsc channel; TopgradeApp::update drains the channel once per frame,    *)
(* feeds the line buffer (process_output), handles key events (send_input) *)
(* and offers the start button (start_topgrade_embedded).                  *)
(*                                                                         *)
(* Text is a sequence of Unicode code points, byte strings are sequences   *)
(* of numbers 0..255.                                                      *)
(***************************************************************************)
EXTENDS Integers, Sequences, FiniteSets, TLC

\* ------------------------------------------------------------------ bounds
MaxStream == 2     \* longest generic child output, in bytes
MaxKeys == 2       \* input events the user makes while a session runs

\* ------------------------------------------------------- program constants
BufSize == 1024    \* let mut buf = [0u8; 1024]

LF == 10
CR == 13
REPLACEMENT == 65533   \* U+FFFD, what from_utf8_lossy substitutes

\* --------------------------------------------------------------- sequences
RECURSIVE Flatten(_)
Flatten(ss) == IF ss = <<>> THEN <<>> ELSE Head(ss) \o Flatten(Tail(ss))

RECURSIVE SeqsUpTo(_, _)
SeqsUpTo(S, n) ==
  IF n = 0 THEN {<<>>}
  ELSE LET shorter == SeqsUpTo(S, n - 1)
       IN  shorter \cup {Append(s, x) : s \in {t \in shorter : Len(t) = n - 1}, x \in S}

IsPrefix(s, t) == Len(s) <= Len(t) /\ SubSeq(t, 1, Len(s)) = s

Min(a, b) == IF a <= b THEN a ELSE b

\* ------------------------------------------------ String::from_utf8_lossy
\* One step of the decoder: how many bytes the next character (or the next
\* maximal invalid subpart, replaced by U+FFFD) takes, and its code point.
Utf8Step(bs) ==
  LET B(i) == IF i <= Len(bs) THEN bs[i] ELSE -1
      b1 == bs[1]
      cont(i) == B(i) \in 128..191
      bad(n) == [n |-> n, cp |-> REPLACEMENT]
  IN  IF b1 < 128 THEN [n |-> 1, cp |-> b1]
      ELSE IF b1 \in 194..223 THEN
        IF cont(2) THEN [n |-> 2, cp |-> (b1 - 192) * 64 + (B(2) - 128)] ELSE bad(1)
      ELSE IF b1 \in 224..239 THEN
        LET lo == IF b1 = 224 THEN 160 ELSE 128
            hi == IF b1 = 237 THEN 159 ELSE 191
        IN  IF ~(B(2) \in lo..hi) THEN bad(1)
            ELSE IF ~cont(3) THEN bad(2)
            ELSE [n |-> 3, cp |-> (b1 - 224) * 4096 + (B(2) - 128) * 64 + (B(3) - 128)]
      ELSE IF b1 \in 240..244 THEN
        LET lo == IF b1 = 240 THEN 144 ELSE 128
            hi == IF b1 = 244 THEN 143 ELSE 191
        IN  IF ~(B(2) \in lo..hi) THEN bad(1)
            ELSE IF ~cont(3) THEN bad(2)
            ELSE IF ~cont(4) THEN bad(3)
            ELSE [n |-> 4, cp |-> (b1 - 240) * 262144 + (B(2) - 128) * 4096
                                  + (B(3) - 128) * 64 + (B(4) - 128)]
      ELSE bad(1)

RECURSIVE from_utf8_lossy(_)
from_utf8_lossy(bs) ==
  IF bs = <<>> THEN <<>>
  ELSE LET s == Utf8Step(bs)
       IN  <<s.cp>> \o from_utf8_lossy(SubSeq(bs, s.n + 1, Len(bs)))

\* str::as_bytes: the UTF-8 encoding of a text.
Utf8Encode(cp) ==
  IF cp < 128 THEN <<cp>>
  ELSE IF cp < 2048 THEN <<192 + (cp \div 64), 128 + (cp % 64)>>
  ELSE IF cp < 65536 THEN <<224 + (cp \div 4096), 128 + ((cp \div 64) % 64), 128 + (cp % 64)>>
  ELSE <<240 + (cp \div 262144), 128 + ((cp \div 4096) % 64),
         128 + ((cp \div 64) % 64), 128 + (cp % 64)>>

RECURSIVE as_bytes(_)
as_bytes(text) ==
  IF text = <<>> THEN <<>> ELSE Utf8Encode(Head(text)) \o as_bytes(Tail(text))

\* ---------------------------------------------------------- prompt detector
\* char::to_lowercase on the code points the model uses (ASCII and Latin-1).
LowerChar(c) ==
  IF c \in 65..90 THEN c + 32
  ELSE IF c \in 192..222 /\ c # 215 THEN c + 32
  ELSE c

to_lowercase(text) == [i \in 1..Len(text) |-> LowerChar(text[i])]

\* char::is_whitespace
IsWhitespace(c) == c \in {9, 10, 11, 12, 13, 32, 133, 160}

RECURSIVE TrimEnd(_)
TrimEnd(text) ==
  IF text # <<>> /\ IsWhitespace(text[Len(text)])
  THEN TrimEnd(SubSeq(text, 1, Len(text) - 1)) ELSE text

\* text.trim().ends_with(c): leading whitespace does not matter to the end.
TrimEndsWith(text, c) ==
  LET t == TrimEnd(text) IN t # <<>> /\ t[Len(t)] = c

\* str::contains
Contains(text, pat) ==
  \E i \in 0..(Len(text) - Len(pat)) : SubSeq(text, i + 1, i + Len(pat)) = pat

WordPassword == <<112, 97, 115, 115, 119, 111, 114, 100>>
WordSenha == <<115, 101, 110, 104, 97>>
WordPassphrase == <<112, 97, 115, 115, 112, 104, 114, 97, 115, 101>>

\* Variant: the words are searched in the text as written (no to_lowercase).
IsPasswordPrompt_CaseSensitive(text) ==
  /\ Contains(text, WordPassword) \/ Contains(text, WordSenha)
     \/ Contains(text, WordPassphrase)
  /\ TrimEndsWith(text, 58)

IsPasswordPrompt(text) ==
  LET lower == to_lowercase(text)
  IN  /\ Contains(lower, WordPassword) \/ Contains(lower, WordSenha)
         \/ Contains(lower, WordPassphrase)
      /\ TrimEndsWith(text, 58)

\* -------------------------------------------------------------- line buffer
\* The application state is handled as a record `app` with the fields of
\* struct TopgradeApp plus the observable effects of a frame:
\*   writes    the write_all calls made on the PTY writer (payload, outcome)
\*   eprinted  the number of "Failed to write to PTY" reports on stderr
\*   observed  the messages taken from the channel, in handling order
\* Variant: a column-addressed overwrite, as a terminal would do it.
ProcessChar_Positional(app, c) ==
  IF c = LF THEN
    [app EXCEPT !.console_lines = Append(@, app.current_line),
                !.current_line = <<>>,
                !.cursor_col = 0]
  ELSE IF c = CR THEN
    [app EXCEPT !.cursor_col = 0]
  ELSE
    [app EXCEPT !.current_line =
                   IF app.cursor_col < Len(@)
                   THEN [@ EXCEPT ![app.cursor_col + 1] = c] ELSE Append(@, c),
                !.cursor_col = @ + 1]

\* Variant: a newline assigns the history instead of pushing to it.
ProcessChar_AssignHistory(app, c) ==
  IF c = LF THEN
    [app EXCEPT !.console_lines = <<app.current_line>>,
                !.current_line = <<>>,
                !.cursor_col = 0]
  ELSE IF c = CR THEN
    [app EXCEPT !.cursor_col = 0]
  ELSE
    LET kept == IF app.cursor_col = 0 /\ app.current_line # <<>>
                THEN <<>> ELSE app.current_line
    IN  [app EXCEPT !.current_line = Append(kept, c),
                    !.cursor_col = @ + 1]

\* Variant: a character after a carriage return is appended to the old line.
ProcessChar_NoClear(app, c) ==
  IF c = LF THEN
    [app EXCEPT !.console_lines = Append(@, app.current_line),
                !.current_line = <<>>,
                !.cursor_col = 0]
  ELSE IF c = CR THEN
    [app EXCEPT !.cursor_col = 0]
  ELSE
    [app EXCEPT !.current_line = Append(@, c),
                !.cursor_col = @ + 1]

ProcessChar(app, c) ==
  IF c = LF THEN
    [app EXCEPT !.console_lines = Append(@, app.current_line),
                !.current_line = <<>>,
                !.cursor_col = 0]
  ELSE IF c = CR THEN
    [app EXCEPT !.cursor_col = 0]
  ELSE
    LET kept == IF app.cursor_col = 0 /\ app.current_line # <<>>
                THEN <<>> ELSE app.current_line
    IN  [app EXCEPT !.current_line = Append(kept, c),
                    !.cursor_col = @ + 1]

RECURSIVE ProcessChars(_, _)
ProcessChars(app, text) ==
  IF text = <<>> THEN app ELSE ProcessChars(ProcessChar(app, Head(text)), Tail(text))

\* Variant: the chunk is split as by str::lines, so that an unterminated last
\* line of a chunk is committed as well.
process_output_Lines(app, text) ==
  LET a == ProcessChars(app, text)
  IN  IF a.current_line # <<>>
      THEN [a EXCEPT !.console_lines = Append(@, a.current_line),
                     !.current_line = <<>>, !.cursor_col = 0]
      ELSE a

process_output(app, text) ==
  LET flagged == IF IsPasswordPrompt(text)
                 THEN [app EXCEPT !.password_mode = TRUE] ELSE app
  IN  ProcessChars(flagged, text)

\* ----------------------------------------------------------------- messages
Output(data) == [type |-> "Output", data |-> data]
Exit == [type |-> "Exit", data |-> <<>>]

\* Variant: the Exit arm commits the unfinished line.
HandleMsg_FlushOnExit(app, msg) ==
  LET seen == [app EXCEPT !.observed = Append(@, msg)]
  IN  IF msg.type = "Output"
      THEN process_output(seen, from_utf8_lossy(msg.data))
      ELSE [seen EXCEPT !.running = FALSE, !.finished = TRUE, !.loop_break = TRUE,
                        !.console_lines = Append(@, seen.current_line),
                        !.current_line = <<>>, !.cursor_col = 0]

\* One arm of `match msg` in update.
HandleMsg(app, msg) ==
  LET seen == [app EXCEPT !.observed = Append(@, msg)]
  IN  IF msg.type = "Output"
      THEN process_output(seen, from_utf8_lossy(msg.data))
      ELSE [seen EXCEPT !.running = FALSE, !.finished = TRUE, !.loop_break = TRUE]

\* Variant: the collected messages are taken from the back (Vec::pop).
RECURSIVE HandleMsgs_Reversed(_, _)
HandleMsgs_Reversed(app, msgs) ==
  IF msgs = <<>> THEN app
  ELSE HandleMsgs_Reversed(HandleMsg(app, msgs[Len(msgs)]), SubSeq(msgs, 1, Len(msgs) - 1))

RECURSIVE HandleMsgs(_, _)
HandleMsgs(app, msgs) ==
  IF msgs = <<>> THEN app ELSE HandleMsgs(HandleMsg(app, Head(msgs)), Tail(msgs))

\* Variant: a frame that has collected Exit handles only Exit and returns.
HandleMessages_ExitFirst(app, msgs) ==
  IF \E i \in DOMAIN msgs : msgs[i].type = "Exit"
  THEN [HandleMsg(app, Exit) EXCEPT !.tx_input = FALSE, !.rx_output = FALSE]
  ELSE HandleMsgs([app EXCEPT !.loop_break = FALSE], msgs)

\* Variant: the handles are kept when Exit has been handled.
HandleMessages_KeepHandles(app, msgs) ==
  HandleMsgs([app EXCEPT !.loop_break = FALSE], msgs)

\* `for msg in messages { ... }` followed by `if loop_break { ... }`.
HandleMessages(app, msgs) ==
  LET a == HandleMsgs([app EXCEPT !.loop_break = FALSE], msgs)
  IN  IF a.loop_break
      THEN [a EXCEPT !.tx_input = FALSE, !.rx_output = FALSE]
      ELSE a

\* -------------------------------------------------------------------- input
\* char::is_control: the Cc category.
IsControl(c) == c \in 0..31 \/ c \in 127..159

RECURSIVE RemoveControl(_)
RemoveControl(text) ==
  IF text = <<>> THEN <<>>
  ELSE IF IsControl(Head(text)) THEN RemoveControl(Tail(text))
  ELSE <<Head(text)>> \o RemoveControl(Tail(text))

\* Variant: a failed write ends the session.
send_input_Abort(app, ok) ==
  IF app.tx_input THEN
    LET input == Append(app.input_text, LF)
        a == [app EXCEPT !.input_text = <<>>,
                         !.writes = Append(@, [payload |-> as_bytes(input), ok |-> ok]),
                         !.eprinted = IF ok THEN @ ELSE @ + 1,
                         !.password_mode = FALSE]
    IN  IF ok THEN a ELSE [a EXCEPT !.running = FALSE, !.finished = TRUE]
  ELSE app

\* Variant: a failed write drops the writer.
send_input_DropSink(app, ok) ==
  IF app.tx_input THEN
    LET input == Append(app.input_text, LF)
    IN  [app EXCEPT !.input_text = <<>>,
                    !.writes = Append(@, [payload |-> as_bytes(input), ok |-> ok]),
                    !.eprinted = IF ok THEN @ ELSE @ + 1,
                    !.password_mode = FALSE,
                    !.tx_input = ok]
  ELSE app

\* Variant: the mask is cleared only when the write succeeded.
send_input_KeepMask(app, ok) ==
  IF app.tx_input THEN
    LET input == Append(app.input_text, LF)
    IN  [app EXCEPT !.input_text = <<>>,
                    !.writes = Append(@, [payload |-> as_bytes(input), ok |-> ok]),
                    !.eprinted = IF ok THEN @ ELSE @ + 1,
                    !.password_mode = IF ok THEN FALSE ELSE @]
  ELSE app

\* send_input; `ok` is the outcome of tx.write_all.
send_input(app, ok) ==
  IF app.tx_input THEN
    LET input == Append(app.input_text, LF)
    IN  [app EXCEPT !.input_text = <<>>,
                    !.writes = Append(@, [payload |-> as_bytes(input), ok |-> ok]),
                    !.eprinted = IF ok THEN @ ELSE @ + 1,
                    !.password_mode = FALSE]
  ELSE app

TextEvent(text) == [kind |-> "Text", text |-> text]
BackspaceKey == [kind |-> "Backspace", text |-> <<>>]
EnterKey == [kind |-> "Enter", text |-> <<>>]

\* Variant: typed text is forwarded to the child at once (raw mode).
HandleEvent_Echo(app, ev, ok) ==
  IF ev.kind = "Text" THEN
    LET clean == RemoveControl(ev.text)
    IN  IF clean # <<>>
        THEN [app EXCEPT !.input_text = @ \o clean,
                         !.writes = Append(@, [payload |-> as_bytes(clean), ok |-> ok])]
        ELSE app
  ELSE IF ev.kind = "Backspace" THEN
    [app EXCEPT !.input_text = IF @ = <<>> THEN <<>> ELSE SubSeq(@, 1, Len(@) - 1)]
  ELSE send_input(app, ok)

\* The body of `for event in events` for one event.
HandleEvent(app, ev, ok) ==
  IF ev.kind = "Text" THEN
    LET clean == RemoveControl(ev.text)
    IN  IF clean # <<>> THEN [app EXCEPT !.input_text = @ \o clean] ELSE app
  ELSE IF ev.kind = "Backspace" THEN
    [app EXCEPT !.input_text = IF @ = <<>> THEN <<>> ELSE SubSeq(@, 1, Len(@) - 1)]
  ELSE send_input(app, ok)

\* oks[i] is the outcome of the write the i-th event makes, if it makes one.
RECURSIVE HandleEvents(_, _, _)
HandleEvents(app, evs, oks) ==
  IF evs = <<>> THEN app
  ELSE HandleEvents(HandleEvent(app, Head(evs), Head(oks)), Tail(evs), Tail(oks))

\* ------------------------------------------------------------------- state
VARIABLES
  running, finished,       \* TopgradeApp.running, .finished
  tx_input, rx_output,     \* Option is Some: the PTY writer, the channel receiver
  console_lines,           \* committed lines
  current_line, cursor_col,
  input_text, password_mode,
  writes, eprinted,        \* write_all calls on the PTY writer; stderr reports
  observed,                \* messages update has handled, in order
  panic,                   \* "none", or the call whose expect() has panicked
  readerPc,                \* reader thread: "none", "loop", "exit", "done"
  pending,                 \* bytes the child will still write to the PTY
  keys,                    \* input events handled so far (bounded by MaxKeys)
  queue,                   \* the mpsc channel
  sentLog,                 \* every message the reader has sent, in order
  spawned,                 \* reader threads created so far (thread::spawn)
  repaint,                 \* a redraw has been requested (ctx.request_repaint)
  fnPieces, fnOut          \* the pieces of a text, and a function's result on it

appVars == <<running, finished, tx_input, rx_output, console_lines, current_line,
             cursor_col, input_text, password_mode, writes, eprinted, observed>>
fnVars == <<fnPieces, fnOut>>
sessionVars == <<appVars, panic, readerPc, pending, keys, queue, sentLog, spawned, repaint>>
vars == <<sessionVars, fnVars>>

App ==
  [running |-> running, finished |-> finished, tx_input |-> tx_input,
   rx_output |-> rx_output, console_lines |-> console_lines,
   current_line |-> current_line, cursor_col |-> cursor_col,
   input_text |-> input_text, password_mode |-> password_mode,
   writes |-> writes, eprinted |-> eprinted, observed |-> observed,
   loop_break |-> FALSE]

SetApp(a) ==
  /\ running' = a.running
  /\ finished' = a.finished
  /\ tx_input' = a.tx_input
  /\ rx_output' = a.rx_output
  /\ console_lines' = a.console_lines
  /\ current_line' = a.current_line
  /\ cursor_col' = a.cursor_col
  /\ input_text' = a.input_text
  /\ password_mode' = a.password_mode
  /\ writes' = a.writes
  /\ eprinted' = a.eprinted
  /\ observed' = a.observed

\* ------------------------------------------------------------------ inputs
\* Bytes of the generic child outputs: a letter, newline, carriage return.
Bytes == {97, LF, CR}

\* "a\rb", "AAAA\rBB", "Senha:", U+00E9 as 0xC3 0xA9 (each byte invalid on
\* its own), the same two bytes around a newline, and "a\nb\n".
StreamACrB == <<97, CR, 98>>
StreamOverwrite == <<65, 65, 65, 65, CR, 66, 66>>
StreamPrompt == <<83, 101, 110, 104, 97, 58>>
StreamUtf8 == <<195, 169>>
StreamBrokenUtf8 == <<195, LF, 169>>
StreamTwoLines == <<97, LF, 98, LF>>
ExampleStreams ==
  {StreamACrB, StreamOverwrite, StreamPrompt, StreamUtf8, StreamBrokenUtf8, StreamTwoLines}

Streams == SeqsUpTo(Bytes, MaxStream) \cup ExampleStreams

\* Text events carry a printable character, a control character, or both.
Events == {TextEvent(<<120>>), TextEvent(<<9>>), TextEvent(<<9, 120>>),
           BackspaceKey, EnterKey}
EventSeqs(n) == SeqsUpTo(Events, n)

OkSeqs(evs) ==
  {oks \in [1..Len(evs) -> BOOLEAN] :
     \A i \in 1..Len(evs) : evs[i].kind # "Enter" => oks[i]}

\* The call of start_topgrade_embedded whose result is an Err, or "ok".
StartOutcomes == {"ok", "openpty", "spawn_command", "try_clone_reader", "take_writer"}

\* --------------------------------------------------------------------- init
\* No function has been applied to the text yet.
NoResult == [fn |-> "none", arg |-> <<>>, val |-> <<>>]

Init ==
  /\ running = FALSE
  /\ finished = FALSE
  /\ tx_input = FALSE
  /\ rx_output = FALSE
  /\ console_lines = <<>>
  /\ current_line = <<>>
  /\ cursor_col = 0
  /\ input_text = <<>>
  /\ password_mode = FALSE
  /\ writes = <<>>
  /\ eprinted = 0
  /\ observed = <<>>
  /\ panic = "none"
  /\ readerPc = "none"
  /\ pending = <<>>
  /\ keys = 0
  /\ queue = <<>>
  /\ sentLog = <<>>
  /\ spawned = 0
  /\ repaint = FALSE
  /\ fnPieces = <<>>
  /\ fnOut = NoResult

\* ------------------------------------------------------------ reader thread
\* tx_out.send(msg); the error of a send on a dropped receiver is ignored.
Send(msg) ==
  /\ queue' = IF rx_output THEN Append(queue, msg) ELSE queue
  /\ sentLog' = Append(sentLog, msg)

\* Ok(n) if n > 0: one non-empty read of at most the buffer's size is sent.
ReaderRead ==
  /\ panic = "none"
  /\ readerPc = "loop"
  /\ \E n \in 1..Min(BufSize, Len(pending)) :
       /\ Send(Output(SubSeq(pending, 1, n)))
       /\ pending' = SubSeq(pending, n + 1, Len(pending))
  /\ repaint' = TRUE
  /\ UNCHANGED <<appVars, panic, readerPc, keys, spawned, fnVars>>

\* Ok(_) => break: the child has closed the PTY and nothing is left to read.
ReaderEof ==
  /\ panic = "none"
  /\ readerPc = "loop"
  /\ pending = <<>>
  /\ readerPc' = "exit"
  /\ UNCHANGED <<appVars, panic, pending, keys, queue, sentLog, spawned, repaint, fnVars>>

\* Err(_) => break: a read error, at any point of the stream.
ReaderErr ==
  /\ panic = "none"
  /\ readerPc = "loop"
  /\ readerPc' = "exit"
  /\ UNCHANGED <<appVars, panic, pending, keys, queue, sentLog, spawned, repaint, fnVars>>

\* After the loop: tx_out.send(AppMsg::Exit), and the thread ends.
ReaderSendExit ==
  /\ panic = "none"
  /\ readerPc = "exit"
  /\ Send(Exit)
  /\ readerPc' = "done"
  /\ repaint' = TRUE
  /\ UNCHANGED <<appVars, panic, pending, keys, spawned, fnVars>>

\* ------------------------------------------------------------------- update
\* `while let Ok(msg) = rx.try_recv()`: everything queued when the loop sees
\* the channel empty; then the messages are handled.
Drained == IF rx_output THEN queue ELSE <<>>
AfterMessages == HandleMessages(App, Drained)

\* The assignments at the end of start_topgrade_embedded.
start_topgrade_embedded(app) ==
  [app EXCEPT !.tx_input = TRUE, !.rx_output = TRUE,
              !.running = TRUE, !.finished = FALSE,
              !.console_lines = <<>>, !.current_line = <<>>, !.cursor_col = 0,
              !.input_text = <<>>, !.password_mode = FALSE]

\* `if !self.running && !self.finished`: the welcome screen, with the button.
StartButtonShown_Always(app) == TRUE

StartButtonShown_NotRunning(app) == ~app.running

StartButtonShown(app) == ~app.running /\ ~app.finished

\* `if self.running { ctx.request_repaint(); }` at the end of update.
RepaintAfterFrame_Never(app) == FALSE

RepaintAfterFrame(app) == app.running

\* A frame on the welcome screen; the start button may be clicked.
UpdateWelcome ==
  /\ panic = "none"
  /\ StartButtonShown(AfterMessages)
  /\ \E clicked \in BOOLEAN :
       IF ~clicked THEN
         /\ SetApp(AfterMessages)
         /\ repaint' = RepaintAfterFrame(AfterMessages)
         /\ queue' = IF rx_output THEN <<>> ELSE queue
         /\ UNCHANGED <<panic, readerPc, pending, keys, sentLog, spawned>>
       ELSE \E outcome \in StartOutcomes, stream \in Streams :
         IF outcome = "ok" THEN
           /\ SetApp(start_topgrade_embedded(AfterMessages))
           /\ repaint' = RepaintAfterFrame(start_topgrade_embedded(AfterMessages))
           /\ readerPc' = "loop"
           /\ spawned' = spawned + 1
           /\ pending' = stream
           /\ queue' = <<>>
           /\ UNCHANGED <<panic, keys, sentLog>>
         ELSE
           \* expect() panics; the thread exists only if take_writer failed.
           /\ SetApp(AfterMessages)
           /\ panic' = outcome
           /\ readerPc' = IF outcome = "take_writer" THEN "loop" ELSE readerPc
           /\ spawned' = IF outcome = "take_writer" THEN spawned + 1 ELSE spawned
           /\ pending' = IF outcome \in {"try_clone_reader", "take_writer"}
                         THEN stream ELSE pending
           /\ queue' = IF rx_output THEN <<>> ELSE queue
           /\ UNCHANGED <<keys, sentLog, repaint>>
  /\ UNCHANGED fnVars

\* A frame while the session runs: messages, then the frame's input events.
UpdateRunning ==
  /\ panic = "none"
  /\ AfterMessages.running
  /\ LET a1 == AfterMessages
     IN  \E evs \in EventSeqs(MaxKeys - keys) : \E oks \in OkSeqs(evs) :
           /\ SetApp(HandleEvents(a1, evs, oks))
           /\ repaint' = RepaintAfterFrame(HandleEvents(a1, evs, oks))
           /\ keys' = keys + Len(evs)
  /\ queue' = IF rx_output THEN <<>> ELSE queue
  /\ UNCHANGED <<panic, readerPc, pending, sentLog, spawned, fnVars>>

\* A frame that ends on the finished screen (no input handling, no button).
UpdateFinished ==
  /\ panic = "none"
  /\ ~AfterMessages.running /\ AfterMessages.finished
  /\ SetApp(AfterMessages)
  /\ repaint' = RepaintAfterFrame(AfterMessages)
  /\ queue' = IF rx_output THEN <<>> ELSE queue
  /\ UNCHANGED <<panic, readerPc, pending, keys, sentLog, spawned, fnVars>>

update == UpdateWelcome \/ UpdateRunning \/ UpdateFinished

Next ==
  \/ UpdateWelcome
  \/ UpdateRunning
  \/ UpdateFinished
  \/ ReaderRead
  \/ ReaderEof
  \/ ReaderErr
  \/ ReaderSendExit

Spec == Init /\ [][Next]_vars

\* ------------------------------------------------------------ derived views
RECURSIVE OutputData(_)
OutputData(msgs) ==
  IF msgs = <<>> THEN <<>>
  ELSE IF Head(msgs).type = "Output" THEN <<Head(msgs).data>> \o OutputData(Tail(msgs))
  ELSE OutputData(Tail(msgs))

SentChunks == OutputData(sentLog)        \* chunks the reader has sent
AppliedChunks == OutputData(observed)    \* chunks handed to process_output

RECURSIVE DecodeEach(_)
DecodeEach(chunks) ==
  IF chunks = <<>> THEN <<>>
  ELSE from_utf8_lossy(Head(chunks)) \o DecodeEach(Tail(chunks))

AppliedText == DecodeEach(AppliedChunks)  \* the text process_output has consumed

Count(x, s) == Cardinality({i \in DOMAIN s : s[i] = x})

\* The pieces of s between the occurrences of sep (always at least one piece).
RECURSIVE SplitOn(_, _)
SplitOn(s, sep) ==
  IF \A i \in DOMAIN s : s[i] # sep THEN <<s>>
  ELSE LET k == CHOOSE i \in DOMAIN s : s[i] = sep /\ \A j \in 1..(i - 1) : s[j] # sep
       IN  <<SubSeq(s, 1, k - 1)>> \o SplitOn(SubSeq(s, k + 1, Len(s)), sep)

LastNonEmpty(pieces) ==
  IF \A i \in DOMAIN pieces : pieces[i] = <<>> THEN <<>>
  ELSE pieces[CHOOSE i \in DOMAIN pieces :
                pieces[i] # <<>> /\ \A j \in (i + 1)..Len(pieces) : pieces[j] = <<>>]

LineBuffer == <<console_lines, current_line, cursor_col>>
ExitQueued == rx_output /\ \E i \in DOMAIN queue : queue[i] = Exit

\* ------------------------------------------------------------------- claims

\* C1: the reader sends exactly one Exit, after every Output; the consumer
\* observes Exit only after it has applied every Output of the session, and
\* only then is the session finished.
C1_ExitOnceAfterAllOutput ==
  /\ Count(Exit, sentLog) <= 1
  /\ \A i \in DOMAIN sentLog : sentLog[i] = Exit => i = Len(sentLog)
  /\ readerPc = "done" => Count(Exit, sentLog) = 1
  /\ \A i \in DOMAIN observed :
       observed[i] = Exit => i = Len(observed) /\ observed = sentLog
  /\ finished <=> Count(Exit, observed) = 1
  /\ finished => ~running /\ AppliedChunks = SentChunks

C1_Witness ==
  /\ finished /\ ~running
  /\ Len(SentChunks) >= 2
  /\ observed = sentLog

\* C2: the chunks handed to process_output are a prefix of the chunks sent, in
\* send order; once the session is finished the two sequences are equal.
C2_DeliveryInOrder ==
  /\ IsPrefix(AppliedChunks, SentChunks)
  /\ IsPrefix(observed, sentLog)
  /\ rx_output => sentLog = observed \o queue
  /\ finished => AppliedChunks = SentChunks

C2_Witness ==
  /\ Len(AppliedChunks) >= 1
  /\ Len(queue) >= 1
  /\ Len(SentChunks) > Len(AppliedChunks)

\* C3: the number of committed lines equals the number of newline bytes in
\* the stream consumed so far, however the stream was cut into chunks; at the
\* end of the session that is the whole stream the reader has read.
C3_LinesEqualNewlines ==
  /\ Len(console_lines) = Count(LF, Flatten(AppliedChunks))
  /\ finished => Len(console_lines) = Count(LF, Flatten(SentChunks))

C3_Witness ==
  /\ finished
  /\ Len(SentChunks) >= 2
  /\ Len(console_lines) >= 1
  /\ current_line # <<>>

\* C4: carriage return then write replaces the whole line: the current line
\* is the last non-empty carriage-return-separated piece of the text after the
\* last newline, and each committed line is the last non-empty piece of its
\* newline-terminated segment ("AAAA\rBB" leaves "BB").
C4_FullLineReplace ==
  LET segs == SplitOn(AppliedText, LF)
      n == Len(segs)
  IN  /\ Len(console_lines) = n - 1
      /\ \A i \in 1..(n - 1) : console_lines[i] = LastNonEmpty(SplitOn(segs[i], CR))
      /\ current_line = LastNonEmpty(SplitOn(segs[n], CR))

C4_Witness ==
  /\ AppliedText = from_utf8_lossy(StreamOverwrite)
  /\ current_line = <<66, 66>>

\* C5: handling Exit changes nothing of the line buffer: the frame that
\* finishes the session leaves it as the Output messages before Exit left it,
\* so "a", "\r", "b" in three chunks end with no committed line and "b".
C5_ExitKeepsLineBuffer ==
  /\ [](finished /\ SentChunks = <<<<97>>, <<CR>>, <<98>>>>
          => console_lines = <<>> /\ current_line = <<98>>)
  /\ [][~finished /\ finished' =>
          LET a == HandleMsgs(App, SubSeq(Drained, 1, Len(Drained) - 1))
          IN  /\ console_lines' = a.console_lines
              /\ current_line' = a.current_line
              /\ cursor_col' = a.cursor_col]_vars

C5_Witness ==
  /\ finished
  /\ SentChunks = <<<<97>>, <<CR>>, <<98>>>>
  /\ current_line = <<98>>
  /\ console_lines = <<>>

\* C6: the history of committed lines only grows at its end: its value in a
\* state is a prefix of its value in every later state.
C6_HistoryAppendOnly == [][IsPrefix(console_lines, console_lines')]_vars

C6_Witness ==
  /\ finished
  /\ Len(console_lines) >= 2
  /\ console_lines[1] # console_lines[2]

\* C7: running and finished are never both true, and a running session stops
\* running only in a frame that takes Exit from the channel, which finishes
\* it; no input event and no failed write ends it.
C7_SessionStates ==
  /\ [](~(running /\ finished))
  /\ [][running /\ ~running' => finished' /\ ExitQueued]_vars
  /\ [][~finished /\ finished' => running /\ ~running']_vars

C7_Witness ==
  /\ finished /\ ~running
  /\ eprinted >= 1

StartFailed == panic # "none"

\* C8: a failing pseudoterminal allocation or process launch fails only the
\* start attempt: the application is NotStarted, no reader exists, and start
\* can be invoked again.
C8_SpawnErrorRecoverable ==
  StartFailed =>
    /\ ~running /\ ~finished
    /\ readerPc = "none"
    /\ ENABLED UpdateWelcome

FailedWrites == {i \in DOMAIN writes : ~writes[i].ok}

\* C9: a failed write is reported and changes nothing else: the session still
\* runs with its writer and its receiver, the line buffer is what the frame's
\* messages made it, and the session finishes only on Exit.
C9_WriteErrorNonFatal ==
  /\ [](eprinted = Cardinality(FailedWrites))
  /\ [][eprinted' > eprinted =>
          /\ running' /\ ~finished' /\ tx_input' /\ rx_output'
          /\ console_lines' = AfterMessages.console_lines
          /\ current_line' = AfterMessages.current_line
          /\ cursor_col' = AfterMessages.cursor_col]_vars
  /\ [][~finished /\ finished' => ExitQueued]_vars

C9_Witness ==
  /\ running /\ tx_input /\ rx_output
  /\ eprinted >= 1

PayloadIsOneLine(p) ==
  LET text == from_utf8_lossy(p)
  IN  /\ text # <<>>
      /\ text[Len(text)] = LF
      /\ \A j \in 1..(Len(text) - 1) : ~IsControl(text[j])

\* C10: only Enter writes to the child: handling Enter makes one write of the
\* whole input_text followed by one newline and empties input_text, whatever
\* the write's outcome; text and backspace events write nothing; no payload
\* holds a control character before its final newline.
C10_EnterIsOnlyWrite ==
  /\ [](running =>
          \A ev \in Events, ok \in BOOLEAN :
            LET r == HandleEvent(App, ev, ok)
            IN  IF ev.kind = "Enter"
                THEN /\ r.writes = Append(writes, [payload |-> as_bytes(input_text) \o <<LF>>,
                                                   ok |-> ok])
                     /\ r.input_text = <<>>
                ELSE r.writes = writes)
  /\ [](\A i \in DOMAIN writes : PayloadIsOneLine(writes[i].payload))
  /\ [][writes' # writes =>
          /\ running /\ tx_input
          /\ IsPrefix(writes, writes')
          /\ Len(writes') - Len(writes) <= keys' - keys]_vars

C10_Witness ==
  /\ Len(writes) = 1
  /\ writes[1].payload = <<120, LF>>
  /\ input_text = <<>>

\* C11: password_mode is false right after an Enter key event is handled,
\* whatever the outcome of the write; a frame that submitted input ends with
\* the mask off.
C11_MaskClearedOnSubmit ==
  /\ [](running => \A ok \in BOOLEAN : ~HandleEvent(App, EnterKey, ok).password_mode)
  /\ [][Len(writes') > Len(writes) => ~password_mode']_vars

C11_Witness ==
  /\ AppliedChunks = <<StreamPrompt>>
  /\ Len(writes) = 1
  /\ ~writes[1].ok
  /\ ~password_mode

\* ------------------------------------------------- the functions on a text
\* The functions of one text are studied on texts put together from pieces:
\* fnPieces are the pieces, fnOut is the last result computed from the text.
MaxPieces == 2        \* pieces in a text given to the prompt detection
MaxDetectLen == 36    \* characters in a text given to the prompt detection

FnText == Flatten(fnPieces)

\* TopgradeApp::default(), as a record.
DefaultApp ==
  [running |-> FALSE, finished |-> FALSE, tx_input |-> FALSE, rx_output |-> FALSE,
   console_lines |-> <<>>, current_line |-> <<>>, cursor_col |-> 0,
   input_text |-> <<>>, password_mode |-> FALSE,
   writes |-> <<>>, eprinted |-> 0, observed |-> <<>>, loop_break |-> FALSE]

\* "Password: ", "[sudo] password for user:", "Continue? [y/N]", "Done."
TextPassword == <<80, 97, 115, 115, 119, 111, 114, 100, 58, 32>>
TextSudo == <<91, 115, 117, 100, 111, 93, 32, 112, 97, 115, 115, 119, 111, 114, 100, 32, 102, 111, 114, 32, 117, 115, 101, 114, 58>>
TextContinue == <<67, 111, 110, 116, 105, 110, 117, 101, 63, 32, 91, 121, 47, 78, 93>>
TextDone == <<68, 111, 110, 101, 46>>

\* The four texts above, and pieces of prompts: "Password", "SENHA",
\* "passphrase", ":", ": ", "[sudo]", "ok?".
DetectPieces ==
  {TextPassword, TextSudo, TextContinue, TextDone,
   <<80, 97, 115, 115, 119, 111, 114, 100>>, <<83, 69, 78, 72, 65>>, <<112, 97, 115, 115, 112, 104, 114, 97, 115, 101>>,
   <<58>>, <<58, 32>>, <<91, 115, 117, 100, 111, 93>>, <<111, 107, 63>>}

AppendDetectPiece ==
  /\ Len(fnPieces) < MaxPieces
  /\ \E piece \in DetectPieces :
       /\ Len(FnText) + Len(piece) <= MaxDetectLen
       /\ fnPieces' = Append(fnPieces, piece)
  /\ fnOut' = NoResult
  /\ UNCHANGED sessionVars

\* process_output on one fragment, from the state a new session starts with:
\* the detection's result is the password_mode it leaves.
ApplyDetect ==
  /\ fnOut' = [fn |-> "detect", arg |-> FnText,
               val |-> process_output(start_topgrade_embedded(DefaultApp), FnText).password_mode]
  /\ UNCHANGED <<sessionVars, fnPieces>>

NextDetect == AppendDetectPiece \/ ApplyDetect

SpecDetect == Init /\ [][NextDetect]_vars

\* The phrases the claim names, in lowercase: "password", "passphrase",
\* "senha", "[sudo]", "[y/n]", "[s/n]".
ClaimedPhrases ==
  {WordPassword, WordPassphrase, WordSenha, <<91, 115, 117, 100, 111, 93>>, <<91, 121, 47, 110, 93>>, <<91, 115, 47, 110, 93>>}

\* The last character of the text that is not whitespace (0 if there is none)
\* and the last two characters of the text.
LastVisible(t) ==
  LET vis == {i \in DOMAIN t : ~IsWhitespace(t[i])}
  IN  IF vis = {} THEN 0 ELSE t[CHOOSE i \in vis : \A j \in vis : j <= i]

EndsWithColonSpace(t) == Len(t) >= 2 /\ t[Len(t) - 1] = 58 /\ t[Len(t)] = 32

\* C12 as claimed: a fragment is flagged when its lowercase form contains one
\* of the phrases, or when it ends with a colon and a space or (trimmed) with
\* a question mark; the three prompts are flagged and "Done." is not.
C12_DetectorAsClaimed ==
  fnOut.fn = "detect" =>
    /\ (\/ \E w \in ClaimedPhrases : Contains(to_lowercase(fnOut.arg), w)
        \/ EndsWithColonSpace(fnOut.arg)
        \/ LastVisible(fnOut.arg) = 63) => fnOut.val
    /\ fnOut.arg \in {TextPassword, TextSudo, TextContinue} => fnOut.val
    /\ fnOut.arg = TextDone => ~fnOut.val

\* C12 (amended): a fragment sets the mask exactly when its lowercase form
\* contains "password", "senha" or "passphrase" and its last visible character
\* is a colon: "Password: " and "[sudo] password for user:" are flagged,
\* "Continue? [y/N]" and "Done." are not.
C12_PasswordPromptOnly ==
  fnOut.fn = "detect" =>
    /\ fnOut.val <=>
         /\ \E w \in {WordPassword, WordSenha, WordPassphrase} :
              Contains(to_lowercase(fnOut.arg), w)
         /\ LastVisible(fnOut.arg) = 58
    /\ fnOut.arg \in {TextPassword, TextSudo} => fnOut.val
    /\ fnOut.arg \in {TextContinue, TextDone} => ~fnOut.val

C12_Witness ==
  /\ fnOut.fn = "detect"
  /\ fnOut.arg = TextPassword
  /\ fnOut.val

\* --------------------------------------------------------------- parse_ansi
\* Regex \x1b\[([0-9;]*)m.  A match holds one ESC, at its start, so matches
\* never overlap and captures_iter finds every position the pattern matches.
ESC == 27
ParamChars == (48..57) \cup {59}

\* The first position from j on that holds no parameter character.
RECURSIVE ParamEnd(_, _)
ParamEnd(t, j) ==
  IF j <= Len(t) /\ t[j] \in ParamChars THEN ParamEnd(t, j + 1) ELSE j

\* The position of the final "m" of the match that starts at i, or 0.
SgrEnd(t, i) ==
  IF i + 1 <= Len(t) /\ t[i] = ESC /\ t[i + 1] = 91
  THEN LET j == ParamEnd(t, i + 2)
       IN  IF j <= Len(t) /\ t[j] = 109 THEN j ELSE 0
  ELSE 0

\* re.captures_iter(text): the matches from position i on, left to right.
RECURSIVE Captures(_, _)
Captures(t, i) ==
  IF i > Len(t) THEN <<>>
  ELSE LET e == SgrEnd(t, i)
       IN  IF e > 0
           THEN <<[start |-> i, end |-> e, codes |-> SubSeq(t, i + 2, e - 1)]>>
                \o Captures(t, e + 1)
           ELSE Captures(t, i + 1)

DefaultStyle == [color |-> "None", background |-> "None", bold |-> FALSE]

\* The foreground colour of a code of the `match code` table, or "" for the
\* codes that set none.
Palette(code) ==
  CASE code = <<51, 48>> -> "BLACK"
    [] code = <<51, 49>> -> "RED"
    [] code = <<51, 50>> -> "GREEN"
    [] code = <<51, 51>> -> "YELLOW"
    [] code = <<51, 52>> -> "BLUE"
    [] code = <<51, 53>> -> "rgb(255,0,255)"
    [] code = <<51, 54>> -> "rgb(0,190,190)"
    [] code = <<51, 55>> -> "WHITE"
    [] code = <<57, 48>> -> "DARK_GRAY"
    [] code = <<57, 49>> -> "LIGHT_RED"
    [] code = <<57, 50>> -> "LIGHT_GREEN"
    [] code = <<57, 51>> -> "LIGHT_YELLOW"
    [] code = <<57, 52>> -> "LIGHT_BLUE"
    [] code = <<57, 53>> -> "LIGHT_GRAY"
    [] code = <<57, 54>> -> "rgb(0,255,255)"
    [] code = <<57, 55>> -> "WHITE"
    [] OTHER -> ""

\* One arm of `match code`.
ApplyCode(style, code) ==
  IF code = <<48>> THEN DefaultStyle
  ELSE IF code = <<49>> THEN [style EXCEPT !.bold = TRUE]
  ELSE IF Palette(code) # "" THEN [style EXCEPT !.color = Palette(code)]
  ELSE style

RECURSIVE ApplyCodes(_, _)
ApplyCodes(style, codes) ==
  IF codes = <<>> THEN style
  ELSE ApplyCodes(ApplyCode(style, Head(codes)), Tail(codes))

\* `if code_str.is_empty() || code_str == "0" { ... } else { for code in ... }`
ApplySgr(style, code_str) ==
  IF code_str = <<>> \/ code_str = <<48>> THEN DefaultStyle
  ELSE ApplyCodes(style, SplitOn(code_str, 59))

Span(txt, style) ==
  [text |-> txt, color |-> style.color, background |-> style.background,
   bold |-> style.bold]

\* Variant: the text before a match is pushed without the `start > last_idx`
\* test.
RECURSIVE ParseLoop_PushAlways(_, _, _, _, _)
ParseLoop_PushAlways(t, caps, last_idx, style, spans) ==
  IF caps = <<>> THEN
    IF last_idx <= Len(t)
    THEN Append(spans, Span(SubSeq(t, last_idx, Len(t)), style)) ELSE spans
  ELSE
    LET cap == Head(caps)
    IN  ParseLoop_PushAlways(t, Tail(caps), cap.end + 1, ApplySgr(style, cap.codes),
                             Append(spans, Span(SubSeq(t, last_idx, cap.start - 1), style)))

\* The loop over the captures and the push of the trailing text; last_idx is
\* the position after the last match.
RECURSIVE ParseLoop(_, _, _, _, _)
ParseLoop(t, caps, last_idx, style, spans) ==
  IF caps = <<>> THEN
    IF last_idx <= Len(t)
    THEN Append(spans, Span(SubSeq(t, last_idx, Len(t)), style)) ELSE spans
  ELSE
    LET cap == Head(caps)
        pushed == IF cap.start > last_idx
                  THEN Append(spans, Span(SubSeq(t, last_idx, cap.start - 1), style))
                  ELSE spans
    IN  ParseLoop(t, Tail(caps), cap.end + 1, ApplySgr(style, cap.codes), pushed)

parse_ansi(t) == ParseLoop(t, Captures(t, 1), 1, DefaultStyle, <<>>)

\* ------------------------------------------------------------ stripping mode
\* The final letter of an escape sequence.
FinalLetters == (65..90) \cup (97..122)

\* The position of the final letter of the escape sequence
\* ESC [ <parameters> <final-letter> that starts at i, or 0.
CsiEnd(t, i) ==
  IF i + 1 <= Len(t) /\ t[i] = ESC /\ t[i + 1] = 91
  THEN LET j == ParamEnd(t, i + 2)
       IN  IF j <= Len(t) /\ t[j] \in FinalLetters THEN j ELSE 0
  ELSE 0

\* Variant: only the sequences that end in "m" are removed.
RECURSIVE StripFrom_SgrOnly(_, _)
StripFrom_SgrOnly(t, i) ==
  IF i > Len(t) THEN <<>>
  ELSE LET e == SgrEnd(t, i)
       IN  IF e > 0 THEN StripFrom_SgrOnly(t, e + 1)
           ELSE <<t[i]>> \o StripFrom_SgrOnly(t, i + 1)

\* One pass over the text from position i: every escape sequence met is
\* removed, every other character is kept.
RECURSIVE StripFrom(_, _)
StripFrom(t, i) ==
  IF i > Len(t) THEN <<>>
  ELSE LET e == CsiEnd(t, i)
       IN  IF e > 0 THEN StripFrom(t, e + 1)
           ELSE <<t[i]>> \o StripFrom(t, i + 1)

strip(t) == StripFrom(t, 1)

\* ------------------------------------------- the text functions on ANSI texts
MaxAnsiPieces == 4     \* pieces in a text given to parse_ansi and strip

SgrRed == <<27, 91, 51, 49, 109>>
SgrReset == <<27, 91, 48, 109>>
SgrEmpty == <<27, 91, 109>>
SgrBoldOtherGreen == <<27, 91, 49, 59, 52, 59, 57, 50, 109>>
CsiEraseLine == <<27, 91, 50, 75>>
CsiOpen == <<27, 91>>
TextHello == <<72, 101, 108, 108, 111>>
TextWorld == <<32, 87, 111, 114, 108, 100>>

AnsiPieces ==
  {SgrRed, SgrReset, SgrEmpty, SgrBoldOtherGreen, CsiEraseLine, CsiOpen,
   TextHello, TextWorld}

AppendAnsiPiece ==
  /\ Len(fnPieces) < MaxAnsiPieces
  /\ \E piece \in AnsiPieces : fnPieces' = Append(fnPieces, piece)
  /\ fnOut' = NoResult
  /\ UNCHANGED sessionVars

ApplyParseAnsi ==
  /\ fnOut' = [fn |-> "parse_ansi", arg |-> FnText, val |-> parse_ansi(FnText)]
  /\ UNCHANGED <<sessionVars, fnPieces>>

ApplyStrip ==
  /\ fnOut' = [fn |-> "strip", arg |-> FnText, val |-> strip(FnText)]
  /\ UNCHANGED <<sessionVars, fnPieces>>

NextAnsi == AppendAnsiPiece \/ ApplyParseAnsi \/ ApplyStrip
SpecAnsi == Init /\ [][NextAnsi]_vars

\* The SGR sequences of a text, as <<first position, last position>>.
IsSgr(t, i, e) ==
  /\ t[i] = ESC
  /\ i + 2 <= e
  /\ t[i + 1] = 91
  /\ t[e] = 109
  /\ \A k \in (i + 2)..(e - 1) : t[k] \in ParamChars
SgrSet(t) ==
  UNION {{<<i, e>> : e \in {x \in (i + 2)..Len(t) : IsSgr(t, i, x)}} :
         i \in {x \in DOMAIN t : t[x] = ESC}}

\* The positions outside every SGR sequence, and their maximal runs.
PlainPositions(t) ==
  {p \in DOMAIN t : \A m \in SgrSet(t) : p < m[1] \/ p > m[2]}
RunStarts(t) ==
  LET plain == PlainPositions(t) IN {a \in plain : (a - 1) \notin plain}
RunEnd(t, a) ==
  LET plain == PlainPositions(t)
  IN  CHOOSE b \in plain : b >= a /\ (a..b) \subseteq plain /\ (b + 1) \notin plain
NthRunStart(t, n) ==
  CHOOSE a \in RunStarts(t) : Cardinality({x \in RunStarts(t) : x < a}) = n - 1

\* The number a parameter denotes; -1 for an empty parameter.
RECURSIVE Decimal(_)
Decimal(code) ==
  IF code = <<>> THEN 0
  ELSE 10 * Decimal(SubSeq(code, 1, Len(code) - 1)) + (code[Len(code)] - 48)
ParamValue(code) == IF code = <<>> THEN -1 ELSE Decimal(code)

\* The style after one parameter, in the words of the claim.
StyleAfterParam(style, code) ==
  LET n == ParamValue(code)
  IN  IF n = 0 THEN DefaultStyle
      ELSE IF n = 1 THEN [style EXCEPT !.bold = TRUE]
      ELSE IF n \in (30..37) \cup (90..97) THEN [style EXCEPT !.color = Palette(code)]
      ELSE style
RECURSIVE StyleAfterParams(_, _)
StyleAfterParams(style, params) ==
  IF params = <<>> THEN style
  ELSE StyleAfterParams(StyleAfterParam(style, Head(params)), Tail(params))

\* The style in force at position p: the default style, then every SGR
\* sequence that ends before p, in input order.
RECURSIVE StyleAt(_, _)
StyleAt(t, p) ==
  LET before == {m \in SgrSet(t) : m[2] < p}
  IN  IF before = {} THEN DefaultStyle
      ELSE LET last == CHOOSE m \in before : \A o \in before : o[1] <= m[1]
               params == SubSeq(t, last[1] + 2, last[2] - 1)
           IN  IF params = <<>> THEN DefaultStyle
               ELSE StyleAfterParams(StyleAt(t, last[1]), SplitOn(params, 59))

ExampleAnsi == SgrRed \o TextHello \o SgrReset \o TextWorld

\* C13: the spans parse_ansi returns are exactly the non-empty runs of text
\* between SGR sequences, in input order, none of them empty; each carries the
\* style obtained from the default style by applying every SGR sequence that
\* precedes it (0 or no parameter resets, 1 sets bold, 30-37 and 90-97 set the
\* foreground, any other code changes nothing); ESC[31m Hello ESC[0m " World"
\* yields ("Hello", red, not bold) then (" World", default, not bold).
C13_SpansAreStyledRuns ==
  fnOut.fn = "parse_ansi" =>
    LET t == fnOut.arg
        spans == fnOut.val
    IN  /\ \A i \in DOMAIN spans : spans[i].text # <<>>
        /\ Len(spans) = Cardinality(RunStarts(t))
        /\ \A i \in DOMAIN spans :
             LET a == NthRunStart(t, i)
             IN  spans[i] = Span(SubSeq(t, a, RunEnd(t, a)), StyleAt(t, a))
        /\ t = ExampleAnsi =>
             spans = <<[text |-> TextHello, color |-> "RED", background |-> "None",
                        bold |-> FALSE],
                       [text |-> TextWorld, color |-> "None", background |-> "None",
                        bold |-> FALSE]>>

C13_Witness ==
  /\ fnOut.fn = "parse_ansi"
  /\ fnOut.arg = ExampleAnsi
  /\ Len(fnOut.val) = 2
  /\ fnOut.val[1].color = "RED"

\* Every ESC of the text begins a complete escape sequence.
EveryEscBeginsSequence(t) ==
  \A i \in DOMAIN t : t[i] = ESC =>
    \E e \in (i + 2)..Len(t) :
      /\ t[i + 1] = 91
      /\ t[e] \in FinalLetters
      /\ \A k \in (i + 2)..(e - 1) : t[k] \in ParamChars

\* C15 as stated: strip(strip(x)) = strip(x) for every input x.
C15_StripIdempotent ==
  fnOut.fn = "strip" => strip(fnOut.val) = fnOut.val

\* C15, amended: strip(strip(x)) = strip(x) for every input x in which each
\* ESC begins a complete escape sequence; strip(x) then holds no ESC at all.
C15_StripIdempotentOnComplete ==
  (fnOut.fn = "strip" /\ EveryEscBeginsSequence(fnOut.arg)) =>
    /\ strip(fnOut.val) = fnOut.val
    /\ \A i \in DOMAIN fnOut.val : fnOut.val[i] # ESC

C15_Witness ==
  /\ fnOut.fn = "strip"
  /\ fnOut.arg = SgrRed \o TextHello \o CsiEraseLine \o TextWorld
  /\ fnOut.val = TextHello \o TextWorld

\* ------------------------------------------------ sessions and reader threads
\* The reader threads that were spawned and have not yet sent Exit.
ReadersAlive == spawned - Count(Exit, sentLog)

\* C14: at most one reader thread is alive (spawned, its Exit not yet sent) in
\* every reachable state, and start_topgrade_embedded never runs while a
\* session is running.
C14_OneReaderOneSession ==
  /\ [](ReadersAlive \in {0, 1})
  /\ []((readerPc \in {"loop", "exit"}) <=> (ReadersAlive = 1))
  /\ [][spawned' > spawned => (~running /\ ~AfterMessages.running)]_vars

C14_Witness ==
  /\ running
  /\ spawned = 1
  /\ ReadersAlive = 1
  /\ readerPc = "loop"
  /\ Len(sentLog) = 2

\* ----------------------------------------------------------------- scheduling
\* The reader thread, once past its loop, gets to run; a requested frame is
\* eventually run by the event loop.
RedrawPending == panic = "none" /\ repaint /\ rx_output /\ queue # <<>>

\* The step of a frame that finds messages queued: try_recv takes them all.
DrainingFrame ==
  /\ RedrawPending
  /\ queue' = <<>>
  /\ Len(observed') = Len(observed) + Len(queue)

\* Weak fairness of the frame that a redraw request asks for, spelled out.
FrameFairness == <>[]RedrawPending => []<><<DrainingFrame>>_vars

FairSpec == Spec /\ WF_vars(ReaderSendExit) /\ FrameFairness

\* C16: under fair scheduling, once the reader's read has returned end of
\* stream or an error the session eventually is finished (not running, input
\* sink and channel released) with every chunk that was read applied; while
\* the session runs a redraw is always requested, so a queued message is
\* eventually consumed.
C16_EventuallyFinished ==
  /\ (readerPc = "exit") ~>
       (/\ finished /\ ~running /\ ~tx_input /\ ~rx_output
        /\ AppliedChunks = SentChunks
        /\ Len(observed) = Len(sentLog))
  /\ [](running => repaint)
  /\ (rx_output /\ queue # <<>>) ~> (queue = <<>>)

C16_Witness ==
  /\ finished
  /\ readerPc = "done"
  /\ ~repaint
  /\ Len(SentChunks) = 2
  /\ AppliedChunks = SentChunks

\* ------------------------------------------------------------ chunk boundaries
\* The line buffer after the whole stream is consumed as a single chunk.
WholeStreamApp ==
  process_output(start_topgrade_embedded(DefaultApp),
                 from_utf8_lossy(Flatten(SentChunks)))

\* C17: once every chunk is consumed, the finalized lines and the current
\* line are those of the whole stream consumed as one chunk, whatever the
\* split into read chunks, a split inside a multi-byte character included.
C17_ChunkSplitInvariant ==
  (finished /\ AppliedChunks = SentChunks) =>
    /\ console_lines = WholeStreamApp.console_lines
    /\ current_line = WholeStreamApp.current_line

\* --------------------------------------------------------------- the handles
\* C18: after the message handling of every frame, running holds exactly when
\* the input sink is held and exactly when the output channel is held; so
\* send_input never runs without a sink, and the frame that consumes Exit
\* releases both handles together with running becoming false.
C18_HandlesFollowRunning ==
  /\ []((running <=> tx_input) /\ (running <=> rx_output))
  /\ []((AfterMessages.running <=> AfterMessages.tx_input)
        /\ (AfterMessages.running <=> AfterMessages.rx_output))
  /\ [][Len(writes') > Len(writes) => (AfterMessages.tx_input /\ tx_input')]_vars
  /\ [][(running /\ ~running') =>
          (/\ tx_input /\ rx_output
           /\ ~tx_input' /\ ~rx_output' /\ finished'
           /\ observed'[Len(observed')] = Exit)]_vars

C18_Witness ==
  /\ finished
  /\ ~running /\ ~tx_input /\ ~rx_output
  /\ Len(writes) = 2
  /\ Len(observed) = 2

\* --------------------------------------------------------------- the cursor
\* The characters consumed since the last newline, or since the start.
SinceNewline == LET pieces == SplitOn(AppliedText, LF) IN pieces[Len(pieces)]

\* C19: the column cursor is 0 or the length of the current line; it is 0 with
\* a non-empty current line exactly when the last character consumed since
\* the last newline (or the start) is a carriage return that content precedes.
C19_CursorAtStartOrEnd ==
  /\ cursor_col \in {0, Len(current_line)}
  /\ (cursor_col = 0 /\ current_line # <<>>) <=>
       (/\ SinceNewline # <<>>
        /\ SinceNewline[Len(SinceNewline)] = CR
        /\ \E i \in DOMAIN SinceNewline : SinceNewline[i] # CR)

C19_Witness ==
  /\ running
  /\ cursor_col = 0
  /\ current_line = <<97>>
  /\ SinceNewline = <<97, CR>>
  /\ console_lines = <<>>

\* ------------------------------------------------------- the finished session
\* C20: start_topgrade_embedded runs only in the NotStarted state, so at most
\* one session is ever started and a started application never is NotStarted
\* again; once finished, running = false, finished = true and the line buffer
\* never change.
C20_FinishedAbsorbing ==
  /\ [](spawned <= 1)
  /\ [][spawned' > spawned =>
          (~running /\ ~finished /\ ~AfterMessages.running /\ ~AfterMessages.finished)]_vars
  /\ [][(running \/ finished) => (running' \/ finished')]_vars
  /\ [][finished => (finished' /\ ~running' /\ LineBuffer' = LineBuffer)]_vars

C20_Witness ==
  /\ finished
  /\ ~running
  /\ spawned = 1
  /\ ~repaint
  /\ Len(console_lines) = 2
  /\ current_line = <<>>

====
